---- MODULE Spec2Model ----
(***************************************************************************)
(* Model of the task-assignment REST service in src/Backend/server.js.     *)
(* The file holds two server variants (lines 1-332 and 333-540); the       *)
(* variable `variant` says which one a behaviour runs.                     *)
(*                                                                         *)
(* Strings are tuples of one-character strings, so that the regular        *)
(* expressions of the handlers can be run on them character by character. *)
(* Buffers are run-length encoded byte sequences: a tuple of runs          *)
(* [b |-> byte, n |-> count], so that a 6 MiB upload is one run.           *)
(***************************************************************************)
EXTENDS Integers, Sequences, FiniteSets, Bags

VARIABLES
    variant,     \* 1: server.js lines 1-332, 2: server.js lines 333-540
    pc,          \* position of startServer / initializeDatabase
    attempt,     \* loop counter of initializeDatabase
    listening,   \* app.listen has been called
    exitCode,    \* argument of process.exit, or -1 while the process lives
    schema,      \* the store: table name -> set of column names
    tasks,       \* the store: rows of table tasks
    history,     \* the store: rows of table task_history
    historySeq,  \* the store: next value of task_history's SERIAL id
    employees,   \* the store: rows of table employees
    clock,       \* wall clock in milliseconds (Date.now, CURRENT_TIMESTAMP)
    initError,   \* message of the error initializeDatabase caught last, or "none"
    inflight,    \* bag of the storage queries suspended handlers are awaiting
    last,        \* the response this process sent most recently
    input        \* what the clients of this behaviour send

vars == <<variant, pc, attempt, listening, exitCode, schema, tasks,
          history, historySeq, employees, clock, initError, inflight, last, input>>

-----------------------------------------------------------------------------
(* Bounds of the model *)

MaxClock == 1
MaxInflight == 2
MaxHistory == 2
MaxLocalLen == 3
MaxIdLen == 7
MaxTailRuns == 2

-----------------------------------------------------------------------------
(* Characters and strings *)

Lower == {"a","b","c","d","e","f","g","h","i","j","k","l","m",
          "n","o","p","q","r","s","t","u","v","w","x","y","z"}
Upper == {"A","B","C","D","E","F","G","H","I","J","K","L","M",
          "N","O","P","Q","R","S","T","U","V","W","X","Y","Z"}
Alpha == Lower \cup Upper
Digit == {"0","1","2","3","4","5","6","7","8","9"}
AlphaNum == Alpha \cup Digit

\* All strings over alphabet S of length at most n.
Strings(S, n) == UNION {[1..k -> S] : k \in 0..n}

-----------------------------------------------------------------------------
(* Regular expressions, as RegExp.prototype.test runs them.  A pattern is a *)
(* tuple of atoms between ^ and $: a character class taken once, a         *)
(* character class under *, or a negative lookahead for a literal.         *)

Cls(S)  == [set |-> S, star |-> FALSE, nla |-> <<>>]
Star(S) == [set |-> S, star |-> TRUE, nla |-> <<>>]
Nla(w)  == [set |-> {}, star |-> FALSE, nla |-> w]
Lit(w)  == [i \in 1..Len(w) |-> Cls({w[i]})]

\* w occurs in s at position si.
OccursAt(s, si, w) ==
    /\ si + Len(w) - 1 <= Len(s)
    /\ \A k \in 1..Len(w) : s[si + k - 1] = w[k]

RECURSIVE Match(_, _, _, _)
Match(p, s, pi, si) ==
    IF pi > Len(p) THEN si = Len(s) + 1
    ELSE LET a == p[pi] IN
         IF a.nla # <<>> THEN ~OccursAt(s, si, a.nla) /\ Match(p, s, pi + 1, si)
         ELSE IF a.star
              THEN \/ Match(p, s, pi + 1, si)
                   \/ si <= Len(s) /\ s[si] \in a.set /\ Match(p, s, pi, si + 1)
              ELSE si <= Len(s) /\ s[si] \in a.set /\ Match(p, s, pi + 1, si + 1)

Test(p, s) == Match(p, s, 1, 1)

CompanyDomain == <<"@","a","s","t","r","o","l","i","t","e","t","e","c","h",".","c","o","m">>

\* /^[a-zA-Z][a-zA-Z0-9._-]*[a-zA-Z0-9]@astrolitetech\.com$/
EmailPatternAnyFirst ==
    <<Cls(AlphaNum), Star(AlphaNum \cup {".", "_", "-"}), Cls(AlphaNum)>>
        \o Lit(CompanyDomain)
EmailPattern ==
    <<Cls(Alpha), Star(AlphaNum \cup {".", "_", "-"}), Cls(AlphaNum)>>
        \o Lit(CompanyDomain)

\* /^ATS0\d{3}$/
CreateIdPatternWithLookahead ==
    Lit(<<"A","T","S","0">>) \o <<Nla(<<"0","0","0">>), Cls(Digit), Cls(Digit), Cls(Digit)>>
CreateIdPattern ==
    Lit(<<"A","T","S","0">>) \o <<Cls(Digit), Cls(Digit), Cls(Digit)>>

\* /^[ATS]{3}0(?!000)[0-9]{3}$/
LookupIdPattern ==
    <<Cls({"A","T","S"}), Cls({"A","T","S"}), Cls({"A","T","S"}), Cls({"0"}),
      Nla(<<"0","0","0">>), Cls(Digit), Cls(Digit), Cls(Digit)>>

isValidCompanyEmail(email) == Test(EmailPattern, email)
isValidEmployeeId(id) == Test(CreateIdPattern, id)
isValidLookupId(id) == Test(LookupIdPattern, id)

-----------------------------------------------------------------------------
(* Buffers *)

Run(b, n) == [b |-> b, n |-> n]

RECURSIVE BufLen(_)
BufLen(buf) == IF buf = <<>> THEN 0 ELSE Head(buf).n + BufLen(Tail(buf))

\* buf[i], i counted from 0; -1 stands for undefined.
RECURSIVE ByteAt(_, _)
ByteAt(buf, i) ==
    IF buf = <<>> THEN -1
    ELSE IF i < Head(buf).n THEN Head(buf).b
    ELSE ByteAt(Tail(buf), i - Head(buf).n)

\* buf.slice(0, n)
RECURSIVE Slice(_, _)
Slice(buf, n) ==
    IF buf = <<>> \/ n <= 0 THEN <<>>
    ELSE IF Head(buf).n = 0 THEN Slice(Tail(buf), n)
    ELSE IF Head(buf).n >= n THEN <<Run(Head(buf).b, n)>>
    ELSE <<Head(buf)>> \o Slice(Tail(buf), n - Head(buf).n)

\* buf.toString(): the buffer decoded as UTF-8, as runs of code points.  A
\* byte up to 0x7F decodes to itself; a byte above it is part of a sequence
\* that decodes to a code point above 0x7F, or to U+FFFD when the sequence is
\* malformed or cut short.
Utf8Decode(buf) ==
    [k \in 1..Len(buf) |-> [c |-> IF buf[k].b <= 127 THEN buf[k].b ELSE 65533,
                             n |-> buf[k].n]]

\* str.match(/^[\x00-\x7F]*$/)
IsAsciiText(str) == \A k \in 1..Len(str) : str[k].n = 0 \/ str[k].c <= 127

SniffWindow == 100

SniffUnguarded(fileBuffer) ==
    IF BufLen(fileBuffer) > 4 /\ ByteAt(fileBuffer, 0) = 37 /\ ByteAt(fileBuffer, 1) = 80
          /\ ByteAt(fileBuffer, 2) = 68 /\ ByteAt(fileBuffer, 3) = 70
    THEN "application/pdf"
    ELSE IF ByteAt(fileBuffer, 0) = 137 /\ ByteAt(fileBuffer, 1) = 80
          /\ ByteAt(fileBuffer, 2) = 78 /\ ByteAt(fileBuffer, 3) = 71
    THEN "image/png"
    ELSE IF ByteAt(fileBuffer, 0) = 255 /\ ByteAt(fileBuffer, 1) = 216
          /\ ByteAt(fileBuffer, 2) = 255
    THEN "image/jpeg"
    ELSE IF IsAsciiText(Utf8Decode(Slice(fileBuffer, SniffWindow)))
    THEN "text/plain"
    ELSE "application/octet-stream"

\* The Content-Type chosen by GET /api/task-history/:id/file.
Sniff(fileBuffer) ==
    IF BufLen(fileBuffer) > 4
    THEN IF ByteAt(fileBuffer, 0) = 37 /\ ByteAt(fileBuffer, 1) = 80
            /\ ByteAt(fileBuffer, 2) = 68 /\ ByteAt(fileBuffer, 3) = 70
         THEN "application/pdf"
         ELSE IF ByteAt(fileBuffer, 0) = 137 /\ ByteAt(fileBuffer, 1) = 80
            /\ ByteAt(fileBuffer, 2) = 78 /\ ByteAt(fileBuffer, 3) = 71
         THEN "image/png"
         ELSE IF ByteAt(fileBuffer, 0) = 255 /\ ByteAt(fileBuffer, 1) = 216
            /\ ByteAt(fileBuffer, 2) = 255
         THEN "image/jpeg"
         ELSE IF IsAsciiText(Utf8Decode(Slice(fileBuffer, SniffWindow)))
         THEN "text/plain"
         ELSE "application/octet-stream"
    ELSE "application/octet-stream"

-----------------------------------------------------------------------------
(* The relational store *)

EmployeeColumns == {"emp_id", "name", "email", "department"}

TaskColumns(v) ==
    IF v = 1
    THEN {"id", "task_name", "employee_name", "employee_id", "email",
          "task_description", "allocated_date", "deadline", "status", "created_at"}
    ELSE {"id", "task_name", "employee_name", "employee_id",
          "task_description", "allocated_date", "deadline", "status", "created_at"}

HistoryColumns(v) ==
    IF v = 1
    THEN {"id", "task_name", "employee_name", "employee_id", "email", "description",
          "upload_doc", "task_status", "allocated_time"}
    ELSE {"id", "task_name", "employee_name", "employee_id",
          "upload_doc", "task_status", "allocated_time"}

EmptySchema == [t \in {} |-> {}]

\* A statement takes the state of a multi-statement query, [sch, err], to
\* the state after it; once a statement has raised an error the rest is
\* skipped.
Began(sch) == [sch |-> sch, err |-> "none"]

WithTable(sch, t, cols) == [u \in DOMAIN sch \cup {t} |-> IF u = t THEN cols ELSE sch[u]]

\* CREATE TABLE IF NOT EXISTS t (cols)
CreateTable(q, t, cols) ==
    IF q.err # "none" THEN q
    ELSE IF t \in DOMAIN q.sch THEN [sch |-> q.sch, err |-> "relation already exists"]
    ELSE Began(WithTable(q.sch, t, cols))
CreateTableIfNotExists(q, t, cols) ==
    IF q.err # "none" \/ t \in DOMAIN q.sch THEN q
    ELSE Began(WithTable(q.sch, t, cols))

\* DROP TABLE IF EXISTS t
DropTableIfExists(q, t) ==
    IF q.err # "none" THEN q
    ELSE Began([u \in DOMAIN q.sch \ {t} |-> q.sch[u]])

\* The statements of one query run in one transaction: an error undoes them.
Committed(sch, q) == IF q.err # "none" THEN [sch |-> sch, err |-> q.err] ELSE q

\* The statements of initializeDatabase, first variant.
InitSchema1(sch) ==
    Committed(sch,
        CreateTableIfNotExists(
            CreateTableIfNotExists(
                CreateTableIfNotExists(Began(sch), "employees", EmployeeColumns),
                "tasks", TaskColumns(1)),
            "task_history", HistoryColumns(1)))

\* The statements of initializeDatabase, second variant.
InitSchema2(sch) ==
    Committed(sch,
        CreateTableIfNotExists(
            CreateTableIfNotExists(
                DropTableIfExists(DropTableIfExists(Began(sch), "tasks"), "task_history"),
                "tasks", TaskColumns(2)),
            "task_history", HistoryColumns(2)))

InitSchema(v, sch) == IF v = 1 THEN InitSchema1(sch) ELSE InitSchema2(sch)

-----------------------------------------------------------------------------
(* Requests.  A body is a function from the names of the fields it holds  *)
(* to their values; a field that is not in its domain is undefined.        *)

\* !body.f
Falsy(body, f) == f \notin DOMAIN body \/ body[f] = <<>>

Without(body, f) == [k \in DOMAIN body \ {f} |-> body[k]]
With(body, f, v) == [k \in DOMAIN body \cup {f} |-> IF k = f THEN v ELSE body[k]]

Assigned == <<"a","s","s","i","g","n","e","d">>

DigitChar(d) ==
    CASE d = 0 -> "0" [] d = 1 -> "1" [] d = 2 -> "2" [] d = 3 -> "3" [] d = 4 -> "4"
      [] d = 5 -> "5" [] d = 6 -> "6" [] d = 7 -> "7" [] d = 8 -> "8" [] d = 9 -> "9"

\* Date.now().toString()
RECURSIVE toString(_)
toString(n) == IF n < 10 THEN <<DigitChar(n)>> ELSE Append(toString(n \div 10), DigitChar(n % 10))

NoResponse == [kind |-> "none", status |-> 0, body |-> <<>>, req |-> <<>>,
               dberr |-> "none", queried |-> FALSE]

Response(kind, status, body, req, dberr, queried) ==
    [kind |-> kind, status |-> status, body |-> body, req |-> req,
     dberr |-> dberr, queried |-> queried]

ErrorBody(msg) == [error |-> msg]

\* What a query may come back with: rows ("none"), or an error whose message
\* is one of these.
StorageErrors == {"connect ECONNREFUSED", "relation does not exist"}
StorageOutcomes == {"none"} \cup StorageErrors

\* catch (err) { console.error(..., err.stack); res.status(500).json({ error: msg }) }
CatchBodyWithDetail(msg, err) == ErrorBody(err)
CatchBody(msg, err) == ErrorBody(msg)

TaskRequired1 == {"taskName", "employeeName", "employeeId", "email",
                  "taskDescription", "allocatedDate", "deadline"}
TaskRequired2 == {"taskName", "employeeName", "employeeId",
                  "taskDescription", "allocatedDate", "deadline"}

\* The checks of POST /api/tasks before its try block, in the order of the
\* code: the message of the 400 response, or "ok".
ValidateTask2(body) ==
    IF \E f \in TaskRequired2 : Falsy(body, f) THEN "All fields are required"
    ELSE "ok"

ValidateTask1(body) ==
    IF \E f \in TaskRequired1 : Falsy(body, f) THEN "All fields are required"
    ELSE IF ~isValidCompanyEmail(body.email)
    THEN "Invalid email format. Must be name@astrolitetech.com"
    ELSE IF ~isValidEmployeeId(body.employeeId) THEN "Invalid employee ID format"
    ELSE "ok"

ValidateTask(v, body) == IF v = 1 THEN ValidateTask1(body) ELSE ValidateTask2(body)

\* The parameters of the INSERT INTO tasks, by column.
TaskParams1(body, now) ==
    [id |-> toString(now), task_name |-> body.taskName,
     employee_name |-> body.employeeName, employee_id |-> body.employeeId,
     email |-> body.email, task_description |-> body.taskDescription,
     allocated_date |-> body.allocatedDate, deadline |-> body.deadline,
     status |-> IF Falsy(body, "status") THEN Assigned ELSE body.status]

TaskParams2(body, now) ==
    [id |-> toString(now), task_name |-> body.taskName,
     employee_name |-> body.employeeName, employee_id |-> body.employeeId,
     task_description |-> body.taskDescription,
     allocated_date |-> body.allocatedDate, deadline |-> body.deadline,
     status |-> IF Falsy(body, "status") THEN Assigned ELSE body.status]

TaskParams(v, body, now) == IF v = 1 THEN TaskParams1(body, now) ELSE TaskParams2(body, now)

\* The row an INSERT stores: its parameters and the column that is set to
\* CURRENT_TIMESTAMP.
StoredRow(params, col, now) ==
    [k \in DOMAIN params \cup {col} |-> IF k = col THEN now ELSE params[k]]

\* INSERT INTO tasks under the PRIMARY KEY constraint on id: the table after
\* the statement and the error it raises.  A row whose id is taken is refused
\* and nothing changes.
InsertTaskOverwriting(table, row) ==
    [table |-> {r \in table : r.id # row.id} \cup {row}, err |-> "none"]
InsertTask(table, row) ==
    IF \E r \in table : r.id = row.id
    THEN [table |-> table, err |-> "unique_violation"]
    ELSE [table |-> table \cup {row}, err |-> "none"]

\* SELECT * FROM tasks WHERE id = $1
SelectTask(table, id) == {r \in table : r.id = id}

\* ORDER BY col DESC: the orders in which the rows of S may come back.
OrderedDesc(S, col) ==
    {q \in [1..Cardinality(S) -> S] :
        /\ \A i, j \in 1..Cardinality(S) : i # j => q[i] # q[j]
        /\ \A i, j \in 1..Cardinality(S) : i < j => q[i][col] >= q[j][col]}

\* The bodies clients send to POST /api/tasks.
GoodId == <<"A","T","S","0","1","2","3">>
GoodEmail == <<"a","b">> \o CompanyDomain

BaseTask ==
    [taskName |-> <<"t">>, employeeName |-> <<"n">>,
     employeeId |-> GoodId, email |-> GoodEmail,
     taskDescription |-> <<"d">>,
     allocatedDate |-> <<"2","0","2","4","-","0","1","-","1","5">>,
     deadline |-> <<"2","0","2","4","-","0","2","-","0","1">>,
     status |-> <<"d","o","n","e">>]

TaskInputs ==
    {BaseTask, Without(BaseTask, "status"), Without(BaseTask, "email"),
     Without(BaseTask, "deadline"), With(BaseTask, "taskName", <<>>),
     With(BaseTask, "email", <<"a","b","c","@","o","t","h","e","r",".","c","o","m">>),
     With(BaseTask, "employeeId", <<"X","Y","Z">>)}

TaskIds == {toString(c) : c \in 0..MaxClock}

-----------------------------------------------------------------------------
(* Process start: startServer and initializeDatabase *)

retries == 5

EmployeeRows == {[emp_id |-> GoodId, name |-> <<"n">>,
                  email |-> <<"e">>, department |-> <<"d">>]}

UNCHANGED_store == UNCHANGED <<schema, tasks, history, historySeq, employees>>
UNCHANGED_proc == UNCHANGED <<variant, pc, attempt, listening, exitCode, initError>>

\* A process that has just been started against a store nobody has used.
Fresh ==
    /\ pc = "start"
    /\ attempt = 0
    /\ listening = FALSE
    /\ exitCode = -1
    /\ initError = "none"
    /\ schema = EmptySchema
    /\ tasks = {}
    /\ history = {}
    /\ historySeq = 1
    /\ employees = {}
    /\ clock = 0
    /\ inflight = EmptyBag
    /\ last = NoResponse

Init ==
    /\ variant \in {1, 2}
    /\ Fresh
    /\ input \in TaskInputs

\* startServer() calls initializeDatabase(): the loop starts at attempt = 1.
StartServer ==
    /\ pc = "start"
    /\ pc' = "attempt"
    /\ attempt' = 1
    /\ UNCHANGED <<variant, listening, exitCode, initError, clock, inflight, last, input>>
    /\ UNCHANGED_store

\* What a failed attempt leads to, first variant: sleep, or throw after the
\* last attempt, which startServer answers with process.exit(1).
FailedAttempt1OneMore(n) == IF n <= retries THEN "sleep" ELSE "exited"
FailedAttempt1(n) == IF n < retries THEN "sleep" ELSE "exited"

\* One pass of the try block of initializeDatabase: the store may be out of
\* reach, or may refuse a statement.
InitAttempt ==
    /\ pc = "attempt"
    /\ \E ok \in BOOLEAN :
        LET q == InitSchema(variant, schema)
            err == IF ok THEN q.err ELSE "connect ECONNREFUSED"
        IN IF err = "none"
           THEN /\ pc' = "ready"
                /\ UNCHANGED <<exitCode, initError>>
                /\ schema' = q.sch
                /\ IF variant = 1
                   THEN UNCHANGED <<tasks, history, historySeq>>
                   ELSE /\ tasks' = {}
                        /\ history' = {}
                        /\ historySeq' = 1
           ELSE /\ pc' = (IF variant = 1 THEN FailedAttempt1(attempt) ELSE "exited")
                /\ exitCode' = (IF pc' = "exited" THEN 1 ELSE exitCode)
                /\ initError' = err
                /\ UNCHANGED <<schema, tasks, history, historySeq>>
    /\ UNCHANGED <<variant, attempt, listening, employees, clock, inflight, last, input>>

\* The timer of the backoff fires and the loop goes round.
BackoffElapsed ==
    /\ pc = "sleep"
    /\ pc' = "attempt"
    /\ attempt' = attempt + 1
    /\ UNCHANGED <<variant, listening, exitCode, initError, clock, inflight, last, input>>
    /\ UNCHANGED_store

\* startServer calls app.listen once `await initializeDatabase()` has returned.
CanListenEarly(p) == p \in {"attempt", "sleep", "ready"}
CanListen(p) == p = "ready"

Listen ==
    /\ CanListen(pc)
    /\ ~listening
    /\ listening' = TRUE
    /\ UNCHANGED <<variant, pc, attempt, exitCode, initError, clock, inflight, last, input>>
    /\ UNCHANGED_store

\* The process is stopped (or has exited) and is started again; the store
\* lives on, the suspended handlers and what the process had answered do not.
Restart ==
    /\ pc # "start"
    /\ pc' = "start"
    /\ attempt' = 0
    /\ listening' = FALSE
    /\ exitCode' = -1
    /\ initError' = "none"
    /\ inflight' = EmptyBag
    /\ last' = NoResponse
    /\ UNCHANGED <<variant, clock, input>>
    /\ UNCHANGED_store

Tick ==
    /\ clock < MaxClock
    /\ clock' = clock + 1
    /\ UNCHANGED <<inflight, last, input>>
    /\ UNCHANGED_proc
    /\ UNCHANGED_store

-----------------------------------------------------------------------------
(* Task routes *)

\* POST /api/tasks up to its await: the checks, then the query is sent.
CreateTaskFrom(bodies) ==
    /\ listening
    /\ BagCardinality(inflight) < MaxInflight
    /\ \E body \in bodies :
        LET v == ValidateTask(variant, body) IN
        IF v # "ok"
        THEN /\ last' = Response("createTask", 400, ErrorBody(v), body, "none", FALSE)
             /\ inflight' = inflight
        ELSE /\ inflight' = inflight (+) SetToBag({[op |-> "insertTask",
                                params |-> TaskParams(variant, body, clock), req |-> body]})
             /\ last' = last
    /\ UNCHANGED <<clock, input>>
    /\ UNCHANGED_proc
    /\ UNCHANGED_store

CreateTask == CreateTaskFrom({input})

\* The store runs the INSERT of a suspended POST /api/tasks and the handler
\* resumes: res.json(result.rows[0]), or the catch block.
CreateTaskDone ==
    /\ \E q \in BagToSet(inflight), err \in StorageOutcomes :
        /\ q.op = "insertTask"
        /\ LET row == StoredRow(q.params, "created_at", clock)
               res == InsertTask(tasks, row)
           IN IF err # "none"
              THEN /\ last' = Response("createTask", 500, CatchBody("Failed to save task", err),
                                       q.req, err, TRUE)
                   /\ tasks' = tasks
              ELSE /\ tasks' = res.table
                   /\ IF res.err = "none"
                      THEN last' = Response("createTask", 200, row, q.req, "none", TRUE)
                      ELSE last' = Response("createTask", 500,
                                            CatchBody("Failed to save task", res.err),
                                            q.req, res.err, TRUE)
        /\ inflight' = inflight (-) SetToBag({q})
    /\ UNCHANGED <<schema, history, historySeq, employees, clock, input>>
    /\ UNCHANGED_proc

\* GET /api/tasks/:id: the response, given the table and how the store
\* answers the query.
GetTaskResponse(table, id, err) ==
    LET rows == SelectTask(table, id) IN
    IF err # "none"
    THEN Response("getTask", 500, CatchBody("Failed to fetch task", err), id, err, TRUE)
    ELSE IF rows = {}
    THEN Response("getTask", 404, ErrorBody("Task not found"), id, "none", TRUE)
    ELSE Response("getTask", 200, CHOOSE r \in rows : TRUE, id, "none", TRUE)

GetTaskFrom(ids) ==
    /\ listening
    /\ \E id \in ids, err \in StorageOutcomes : last' = GetTaskResponse(tasks, id, err)
    /\ UNCHANGED <<clock, inflight, input>>
    /\ UNCHANGED_proc
    /\ UNCHANGED_store

GetTask == GetTaskFrom(TaskIds)

\* GET /api/tasks?employeeId=
ListTasksFrom(filters) ==
    /\ listening
    /\ \E q \in filters, err \in StorageOutcomes :
        IF variant = 1 /\ q # <<>> /\ ~isValidEmployeeId(q)
        THEN last' = Response("listTasks", 400, ErrorBody("Invalid employee ID format"),
                              q, "none", FALSE)
        ELSE IF err # "none"
        THEN last' = Response("listTasks", 500, CatchBody("Failed to fetch tasks", err),
                              q, err, TRUE)
        ELSE \E rows \in OrderedDesc(IF variant = 1 /\ q # <<>>
                                     THEN {r \in tasks : r.employee_id = q}
                                     ELSE tasks, "created_at") :
                last' = Response("listTasks", 200, rows, q, "none", TRUE)
    /\ UNCHANGED <<clock, inflight, input>>
    /\ UNCHANGED_proc
    /\ UNCHANGED_store

\* GET /api/employees/:empId
GetEmployeeFrom(ids) ==
    /\ listening
    /\ variant = 1
    /\ \E id \in ids, err \in StorageOutcomes :
        LET rows == {r \in employees : r.emp_id = id} IN
        last' = IF ~isValidLookupId(id)
                THEN Response("getEmployee", 400, ErrorBody("Invalid employee ID format"),
                              id, "none", FALSE)
                ELSE IF err # "none"
                THEN Response("getEmployee", 500, CatchBody("Failed to fetch employee", err),
                              id, err, TRUE)
                ELSE IF rows = {}
                THEN Response("getEmployee", 404, ErrorBody("Employee not found"),
                              id, "none", TRUE)
                ELSE Response("getEmployee", 200, CHOOSE r \in rows : TRUE, id, "none", TRUE)
    /\ UNCHANGED <<clock, inflight, input>>
    /\ UNCHANGED_proc
    /\ UNCHANGED_store

Next ==
    \/ StartServer
    \/ InitAttempt
    \/ BackoffElapsed
    \/ Listen
    \/ Restart
    \/ Tick
    \/ CreateTask
    \/ CreateTaskDone
    \/ GetTask

Spec == Init /\ [][Next]_vars

-----------------------------------------------------------------------------
(* Uploads: the multer instance `upload` and the middleware stack *)

fileSize == 5 * 1024 * 1024

allowedTypes ==
    {"application/pdf", "application/msword",
     "application/vnd.openxmlformats-officedocument.wordprocessingml.document",
     "image/jpeg", "image/png", "text/plain"}

NoFile == [present |-> FALSE, mimetype |-> "", buffer |-> <<>>]
File(mimetype, buffer) == [present |-> TRUE, mimetype |-> mimetype, buffer |-> buffer]

NoError == [class |-> "none", message |-> ""]

\* fileFilter: cb(null, true) or cb(new Error(...))
fileFilter(file) ==
    IF file.mimetype \in allowedTypes THEN NoError
    ELSE [class |-> "Error",
          message |-> "Invalid file type. Allowed: PDF, DOC, DOCX, JPG, JPEG, PNG, TXT"]

\* upload.single('uploadDoc'): the error it hands to next(), if any.  The
\* filter sees the part's header first; the size limit trips while the part
\* is read.
UploadSingle(file) ==
    IF ~file.present THEN NoError
    ELSE IF fileFilter(file).class # "none" THEN fileFilter(file)
    ELSE IF BufLen(file.buffer) > fileSize
    THEN [class |-> "MulterError", message |-> "File too large"]
    ELSE NoError

\* The layers of the application in the order app.use / app.get / app.post
\* register them.
AppStack ==
    <<[kind |-> "middleware", name |-> "cors"],
      [kind |-> "middleware", name |-> "express.json"],
      [kind |-> "middleware", name |-> "express.static"],
      [kind |-> "route", name |-> "GET /favicon.ico"],
      [kind |-> "error", name |-> "error handling middleware"],
      [kind |-> "route", name |-> "GET /api/employees/:empId"],
      [kind |-> "route", name |-> "GET /api/tasks"],
      [kind |-> "route", name |-> "POST /api/tasks"],
      [kind |-> "route", name |-> "GET /api/tasks/:id"],
      [kind |-> "route", name |-> "GET /api/task-history"],
      [kind |-> "route", name |-> "POST /api/task-history"],
      [kind |-> "route", name |-> "GET /api/task-history/:id/file"],
      [kind |-> "route", name |-> "GET /api/task-history/:id"],
      [kind |-> "route", name |-> "GET /hr"],
      [kind |-> "route", name |-> "GET /employee"],
      [kind |-> "middleware", name |-> "404 handler"]>>

RouteIndex(name) == CHOOSE i \in 1..Len(AppStack) : AppStack[i].name = name

\* The error-handling middleware (err, req, res, next).
ErrorMiddleware(err) ==
    IF err.class = "MulterError"
    THEN [status |-> 400, body |-> ErrorBody(<<"Multer error: ", err.message>>)]
    ELSE [status |-> 500, body |-> ErrorBody(IF err.message # "" THEN err.message
                                              ELSE "Internal server error")]

\* What answers next(err) when no error-handling layer is left: the error
\* carries no status, so the framework answers 500.
FinalHandler(err) == [status |-> 500, body |-> ErrorBody("Internal Server Error")]

\* next(err) called by layer `from`: only the layers registered after it are
\* looked at.
DispatchError(from, err) ==
    IF \E j \in (from + 1)..Len(AppStack) : AppStack[j].kind = "error"
    THEN ErrorMiddleware(err)
    ELSE FinalHandler(err)

-----------------------------------------------------------------------------
(* Task-history routes (first variant) *)

\* A value of column upload_doc: NULL, or a buffer.
NullDoc == [null |-> TRUE, buf |-> <<>>]
Doc(buffer) == [null |-> FALSE, buf |-> buffer]

\* !upload_doc: a Buffer is an object, and truthy even when it is empty.
NotDocOrEmpty(doc) == doc.null \/ BufLen(doc.buf) = 0
NotDoc(doc) == doc.null

HistoryRequired == {"taskName", "employeeName", "employeeId", "email",
                    "description", "taskStatus"}

ValidateHistory(body) ==
    IF \E f \in HistoryRequired : Falsy(body, f) THEN "All fields are required"
    ELSE IF ~isValidCompanyEmail(body.email) THEN "Invalid email format"
    ELSE IF ~isValidEmployeeId(body.employeeId) THEN "Invalid employee ID format"
    ELSE "ok"

\* The parameters of the INSERT INTO task_history, by column.
HistoryParams(body, file) ==
    [task_name |-> body.taskName, employee_name |-> body.employeeName,
     employee_id |-> body.employeeId, email |-> body.email,
     description |-> body.description,
     upload_doc |-> IF file.present THEN Doc(file.buffer) ELSE NullDoc,
     task_status |-> body.taskStatus]

\* The select list of the history queries: every column but the blob, and
\* upload_doc IS NOT NULL AS has_file.
Metadata(row) ==
    [id |-> row.id, task_name |-> row.task_name, employee_name |-> row.employee_name,
     employee_id |-> row.employee_id, email |-> row.email,
     description |-> row.description, task_status |-> row.task_status,
     allocated_time |-> row.allocated_time, has_file |-> ~row.upload_doc.null]

\* POST /api/task-history up to its await: upload.single, then the checks,
\* then the query is sent.
CreateHistoryFrom(reqs) ==
    /\ listening
    /\ BagCardinality(inflight) < MaxInflight
    /\ historySeq + BagCardinality(inflight) <= MaxHistory
    /\ \E req \in reqs :
        LET err == UploadSingle(req.file)
            ans == DispatchError(RouteIndex("POST /api/task-history"), err)
            v == ValidateHistory(req.body)
        IN IF err.class # "none"
           THEN /\ last' = Response("createHistory", ans.status, ans.body, req, "none", FALSE)
                /\ inflight' = inflight
           ELSE IF v # "ok"
           THEN /\ last' = Response("createHistory", 400, ErrorBody(v), req, "none", FALSE)
                /\ inflight' = inflight
           ELSE /\ inflight' = inflight (+) SetToBag({[op |-> "insertHistory",
                                params |-> HistoryParams(req.body, req.file), req |-> req]})
                /\ last' = last
    /\ UNCHANGED <<clock, input>>
    /\ UNCHANGED_proc
    /\ UNCHANGED_store

CreateHistory == CreateHistoryFrom({input})

\* The store runs the INSERT of a suspended POST /api/task-history and the
\* handler resumes.
CreateHistoryDone ==
    /\ \E q \in BagToSet(inflight), err \in StorageOutcomes :
        /\ q.op = "insertHistory"
        /\ LET row == StoredRow(StoredRow(q.params, "id", historySeq),
                                "allocated_time", clock)
           IN IF err # "none"
              THEN /\ last' = Response("createHistory", 500,
                                       CatchBody("Failed to save task history", err),
                                       q.req, err, TRUE)
                   /\ UNCHANGED <<history, historySeq>>
              ELSE /\ history' = history \cup {row}
                   /\ historySeq' = historySeq + 1
                   /\ last' = Response("createHistory", 200,
                                       [success |-> TRUE, data |-> Metadata(row),
                                        message |-> "Task history saved successfully"],
                                       q.req, "none", TRUE)
        /\ inflight' = inflight (-) SetToBag({q})
    /\ UNCHANGED <<schema, tasks, employees, clock, input>>
    /\ UNCHANGED_proc

\* GET /api/task-history?employeeId=
ListHistoryFrom(filters) ==
    /\ listening
    /\ \E q \in filters, err \in StorageOutcomes :
        IF q # <<>> /\ ~isValidEmployeeId(q)
        THEN last' = Response("listHistory", 400, ErrorBody("Invalid employee ID format"),
                              q, "none", FALSE)
        ELSE IF err # "none"
        THEN last' = Response("listHistory", 500, CatchBody("Failed to fetch task history", err),
                              q, err, TRUE)
        ELSE \E rows \in OrderedDesc({Metadata(r) : r \in
                                        IF q # <<>> THEN {r \in history : r.employee_id = q}
                                        ELSE history}, "allocated_time") :
                last' = Response("listHistory", 200, rows, q, "none", TRUE)
    /\ UNCHANGED <<clock, inflight, input>>
    /\ UNCHANGED_proc
    /\ UNCHANGED_store

ListHistory == ListHistoryFrom({<<>>, GoodId, <<"X","Y","Z">>})

HistoryIds == 1..(MaxHistory + 1)

\* GET /api/task-history/:id
GetHistory ==
    /\ listening
    /\ \E id \in HistoryIds, err \in StorageOutcomes :
        LET rows == {r \in history : r.id = id} IN
        last' = IF err # "none"
                THEN Response("getHistory", 500, CatchBody("Failed to fetch task history", err),
                              id, err, TRUE)
                ELSE IF rows = {}
                THEN Response("getHistory", 404, ErrorBody("Task history not found"),
                              id, "none", TRUE)
                ELSE Response("getHistory", 200, Metadata(CHOOSE r \in rows : TRUE),
                              id, "none", TRUE)
    /\ UNCHANGED <<clock, inflight, input>>
    /\ UNCHANGED_proc
    /\ UNCHANGED_store

\* GET /api/task-history/:id/file
GetHistoryFile ==
    /\ listening
    /\ \E id \in HistoryIds, err \in StorageOutcomes :
        LET rows == {r \in history : r.id = id} IN
        last' = IF err # "none"
                THEN Response("getHistoryFile", 500, CatchBody("Failed to retrieve file", err),
                              id, err, TRUE)
                ELSE IF rows = {} \/ NotDoc((CHOOSE r \in rows : TRUE).upload_doc)
                THEN Response("getHistoryFile", 404, ErrorBody("File not found"),
                              id, "none", TRUE)
                ELSE LET fileBuffer == (CHOOSE r \in rows : TRUE).upload_doc.buf IN
                     Response("getHistoryFile", 200,
                              [contentType |-> Sniff(fileBuffer), data |-> fileBuffer],
                              id, "none", TRUE)
    /\ UNCHANGED <<clock, inflight, input>>
    /\ UNCHANGED_proc
    /\ UNCHANGED_store

\* A first-variant process that listens, its store initialized and empty
\* but for the employees provisioned from outside.
Serving ==
    /\ variant = 1
    /\ pc = "ready"
    /\ attempt = 1
    /\ listening = TRUE
    /\ exitCode = -1
    /\ initError = "none"
    /\ schema = InitSchema1(EmptySchema).sch
    /\ tasks = {}
    /\ history = {}
    /\ historySeq = 1
    /\ employees = EmployeeRows
    /\ clock = 0
    /\ inflight = EmptyBag
    /\ last = NoResponse

BaseHistory ==
    [taskName |-> <<"t">>, employeeName |-> <<"n">>, employeeId |-> GoodId,
     email |-> GoodEmail, description |-> <<"d">>, taskStatus |-> <<"d","o","n","e">>]

PdfFile == File("application/pdf", <<Run(37, 1), Run(80, 1), Run(68, 1), Run(70, 1), Run(45, 1)>>)
TextFile == File("text/plain", <<Run(104, 1), Run(105, 1), Run(10, 1)>>)
EmptyFile == File("text/plain", <<>>)
LimitFile == File("image/png", <<Run(65, fileSize)>>)
BigFile == File("application/pdf", <<Run(65, 6 * 1024 * 1024)>>)
ZipFile == File("application/zip", <<Run(80, 1), Run(75, 1), Run(3, 1), Run(4, 1)>>)
BigZipFile == File("application/zip", <<Run(80, 1), Run(75, 1), Run(0, 6 * 1024 * 1024)>>)

HistoryInputs ==
    {[body |-> BaseHistory, file |-> f] :
        f \in {NoFile, PdfFile, TextFile, EmptyFile, LimitFile, BigFile, ZipFile, BigZipFile}}
    \cup {[body |-> b, file |-> f] :
            b \in {Without(BaseHistory, "description"),
                   With(BaseHistory, "email", <<"a">> \o CompanyDomain),
                   With(BaseHistory, "employeeId", <<"X","Y","Z">>)},
            f \in {NoFile, TextFile, BigFile}}

InitHistory ==
    /\ Serving
    /\ input \in HistoryInputs

NextHistory ==
    \/ Tick
    \/ CreateHistory
    \/ CreateHistoryDone
    \/ ListHistory
    \/ GetHistory
    \/ GetHistoryFile

SpecHistory == InitHistory /\ [][NextHistory]_vars

-----------------------------------------------------------------------------
(* The validators, probed through the routes that apply them *)

\* Local parts: every string of up to MaxLocalLen characters over letters of
\* both cases, a digit, the three marks and a character outside the class,
\* and the local part of the longer address the documentation gives.
LocalChars == {"a", "Z", "9", ".", "_", "-", "@"}

Domains ==
    {CompanyDomain,
     <<"@","a","s","t","r","o","l","i","t","e","t","e","c","h","x","c","o","m">>,
     CompanyDomain \o <<"m">>,
     <<"@","o","t","h","e","r",".","c","o","m">>}

EmailCandidates ==
    {l \o d : l \in Strings(LocalChars, MaxLocalLen)
                      \cup {<<"a",".","b","-","c","_","9">>, <<"a","b","c">>, <<".","a","b","c">>},
              d \in Domains}

\* Ids: short strings, and strings of MaxIdLen characters built position by
\* position around the two patterns.
IdCandidates ==
    Strings({"A", "T", "S", "0", "1"}, 2)
    \cup {p \o <<z>> \o t : p \in [1..3 -> {"A", "T", "S", "x"}], z \in {"0", "1"},
                           t \in [1..(MaxIdLen - 4) -> {"0", "1", "x"}]}

ValidateInputs ==
    {[email |-> e, employeeId |-> GoodId] : e \in EmailCandidates}
    \cup {[email |-> GoodEmail, employeeId |-> i] : i \in IdCandidates}

ProbeTask(in) == With(With(BaseTask, "email", in.email), "employeeId", in.employeeId)
ProbeHistory(in) ==
    [body |-> With(With(BaseHistory, "email", in.email), "employeeId", in.employeeId),
     file |-> NoFile]

\* The first request a client sends carries the input.
FirstRequest == last = NoResponse /\ inflight = EmptyBag

ProbeCreateTask == FirstRequest /\ CreateTaskFrom({ProbeTask(input)})
ProbeCreateHistory == FirstRequest /\ CreateHistoryFrom({ProbeHistory(input)})
ProbeListTasks == FirstRequest /\ ListTasksFrom({input.employeeId})
ProbeListHistory == FirstRequest /\ ListHistoryFrom({input.employeeId})

\* A path segment is never empty.
ProbeGetEmployee ==
    /\ inflight = EmptyBag
    /\ input.employeeId # <<>>
    /\ GetEmployeeFrom({input.employeeId})

InitValidate ==
    /\ Serving
    /\ input \in ValidateInputs

NextValidate ==
    \/ ProbeCreateTask
    \/ CreateTaskDone
    \/ ProbeCreateHistory
    \/ CreateHistoryDone
    \/ ProbeListTasks
    \/ ProbeListHistory
    \/ ProbeGetEmployee

SpecValidate == InitValidate /\ [][NextValidate]_vars

-----------------------------------------------------------------------------
(* The content type of served files, probed by upload and download *)

\* The first four bytes, position by position: the bytes of the three magic
\* numbers, an ASCII byte and a byte above 0x7F.
HeadBytes == <<{37, 137, 255, 65}, {80, 216, 65}, {68, 78, 255, 65}, {70, 71, 128}>>

RECURSIVE Heads(_)
Heads(k) == IF k = 0 THEN {<<>>}
            ELSE {Append(h, b) : h \in Heads(k - 1), b \in HeadBytes[k]}

RunsOf(bytes) == [i \in 1..Len(bytes) |-> Run(bytes[i], 1)]

\* What follows the head: one run after any head, and up to MaxTailRuns
\* runs, around the 100th byte, after a head that starts no magic number.
TailRuns == {Run(65, 1), Run(65, 95), Run(65, 96), Run(128, 1)}

Tails == UNION {[1..k -> TailRuns] : k \in 0..MaxTailRuns}

BlobInputs ==
    {[mimetype |-> m, buffer |-> RunsOf(h)] :
        m \in {"text/plain", "image/png"}, h \in UNION {Heads(k) : k \in 0..3}}
    \cup {[mimetype |-> "text/plain", buffer |-> RunsOf(h) \o <<r>>] :
            h \in Heads(4), r \in TailRuns}
    \cup {[mimetype |-> "text/plain", buffer |-> RunsOf(h) \o t] :
            h \in {g \in Heads(4) : g[1] = 65}, t \in Tails}

UploadBlob ==
    /\ FirstRequest
    /\ CreateHistoryFrom({[body |-> BaseHistory, file |-> File(input.mimetype, input.buffer)]})

InitSniff ==
    /\ Serving
    /\ input \in BlobInputs

NextSniff ==
    \/ UploadBlob
    \/ CreateHistoryDone
    \/ GetHistoryFile

SpecSniff == InitSniff /\ [][NextSniff]_vars

-----------------------------------------------------------------------------
(* Every route of the first variant, against a store that may fail *)

FailureInputs ==
    {[task |-> t, history |-> [body |-> BaseHistory, file |-> f]] :
        t \in {BaseTask, Without(BaseTask, "status")}, f \in {NoFile, TextFile}}

\* The client sends one create request at a time, until one is stored.
PostTask == inflight = EmptyBag /\ tasks = {} /\ CreateTaskFrom({input.task})
PostHistory == inflight = EmptyBag /\ history = {} /\ CreateHistoryFrom({input.history})
ListTasks == ListTasksFrom({<<>>, GoodId})
GetEmployee == GetEmployeeFrom({GoodId, <<"S","T","A","0","0","0","1">>})

InitFailure ==
    /\ Serving
    /\ input \in FailureInputs

NextFailure ==
    \/ Tick
    \/ GetEmployee
    \/ ListTasks
    \/ PostTask
    \/ CreateTaskDone
    \/ GetTask
    \/ ListHistory
    \/ PostHistory
    \/ CreateHistoryDone
    \/ GetHistoryFile
    \/ GetHistory

SpecFailure == InitFailure /\ [][NextFailure]_vars

-----------------------------------------------------------------------------
(* One run of a first-variant process.  The store answers every query it   *)
(* is sent, with rows or with an error, and the timer of the backoff       *)
(* fires: the continuation of each await of startServer and of             *)
(* initializeDatabase is eventually run.                                    *)

InitRun ==
    /\ variant = 1
    /\ Fresh
    /\ input \in TaskInputs

NextRun ==
    \/ StartServer
    \/ InitAttempt
    \/ BackoffElapsed
    \/ Listen
    \/ Tick
    \/ CreateTask
    \/ CreateTaskDone
    \/ GetTask

SpecRun ==
    /\ InitRun
    /\ [][NextRun]_vars
    /\ WF_vars(StartServer)
    /\ WF_vars(InitAttempt)
    /\ WF_vars(BackoffElapsed)

-----------------------------------------------------------------------------
(* Properties of the task routes and of process start *)

\* A create request the spec says must be refused: a required field is
\* missing or empty, the email fails the company-email check, or the
\* employee id does not match ^ATS0\d{3}$.
InvalidTaskBody(body) ==
    \/ \E f \in TaskRequired1 : Falsy(body, f)
    \/ ~isValidCompanyEmail(body.email)
    \/ ~isValidEmployeeId(body.employeeId)

InvalidHistoryBody(body) ==
    \/ \E f \in HistoryRequired : Falsy(body, f)
    \/ ~isValidCompanyEmail(body.email)
    \/ ~isValidEmployeeId(body.employeeId)

\* C1: every create request with a missing or empty required field, a bad
\* email or a bad employee id is answered 400 without a storage query, and
\* so every stored task row has an employee_id matching ^ATS0\d{3}$.
InvalidCreateRefused ==
    /\ (last.kind = "createTask" /\ InvalidTaskBody(last.req))
            => (last.status = 400 /\ ~last.queried)
    /\ (last.kind = "createHistory" /\ InvalidHistoryBody(last.req.body))
            => (last.status = 400 /\ ~last.queried)
    /\ \A r \in tasks : isValidEmployeeId(r.employee_id)

\* C3: the process listens only after initializeDatabase has succeeded; when
\* the attempts are exhausted it exits with a non-zero status and does not
\* listen.
ListenOnlyWhenReady ==
    /\ listening => (pc = "ready" /\ {"tasks", "task_history"} \subseteq DOMAIN schema)
    /\ pc = "exited" => (exitCode # 0 /\ exitCode # -1 /\ ~listening)
    /\ pc # "exited" => exitCode = -1

ListeningAfterRetry == listening /\ attempt = retries

\* The columns of a task row and the fields of the request body they hold.
TaskFieldOf ==
    [task_name |-> "taskName", employee_name |-> "employeeName",
     employee_id |-> "employeeId", email |-> "email",
     task_description |-> "taskDescription", allocated_date |-> "allocatedDate",
     deadline |-> "deadline"]

RowMatchesBody(row, body) ==
    /\ \A col \in DOMAIN TaskFieldOf :
          TaskFieldOf[col] \in DOMAIN body
              => (col \in DOMAIN row /\ row[col] = body[TaskFieldOf[col]])
    /\ row.status = (IF Falsy(body, "status") THEN Assigned ELSE body.status)

UniqueTaskIds == \A r1, r2 \in tasks : r1.id = r2.id => r1 = r2

CollisionRefused ==
    \A q \in BagToSet(inflight) :
        ( /\ q.op = "insertTask"
          /\ inflight' = inflight (-) SetToBag({q})
          /\ pc' = pc
          /\ \E r \in tasks : r.id = q.params.id )
        => (tasks' = tasks /\ last'.kind = "createTask" /\ last'.status = 500)

\* C4: an insert whose millisecond id is already taken leaves the table as
\* it was and is answered with an error (500); no two task rows share an id.
CollisionSurfaces ==
    /\ [](UniqueTaskIds /\ (last.dberr = "unique_violation" => last.status = 500))
    /\ [][CollisionRefused]_vars

CollisionSeen ==
    /\ last.kind = "createTask"
    /\ last.dberr = "unique_violation"
    /\ \E r \in tasks : r.id = toString(0) /\ RowMatchesBody(r, last.req)

\* C5: a task created from a body and fetched by the returned id comes back
\* with the body's values, and with status 'assigned' when none was sent.
RoundTrip ==
    /\ (last.kind = "createTask" /\ last.status = 200)
          => LET got == GetTaskResponse(tasks, last.body.id, "none")
             IN got.status = 200 /\ RowMatchesBody(got.body, last.req)
    /\ (last.kind = "getTask" /\ last.status = 200) => RowMatchesBody(last.body, input)

\* C7: no step updates or deletes a stored task.
TasksAppendOnly == [][\A r \in tasks : r \in tasks']_vars

-----------------------------------------------------------------------------
(* Properties of the task-history routes *)

\* An upload the spec says must be refused: over 5 MiB, or of a declared
\* type outside the allow-list.
BadUpload(file) ==
    file.present /\ (BufLen(file.buffer) > fileSize \/ file.mimetype \notin allowedTypes)

\* C2: a POST /api/task-history with an oversized upload or one of a type
\* outside the allow-list is answered 400 and inserts no row.
BadUploadRefusedWith400 ==
    /\ (last.kind = "createHistory" /\ BadUpload(last.req.file))
            => (last.status = 400 /\ ~last.queried)
    /\ \A r \in history :
          r.upload_doc.null \/ BufLen(r.upload_doc.buf) <= fileSize

StoredDoc(id) == {r.upload_doc : r \in {x \in history : x.id = id}}

\* has_file as create, list and get-by-id return it, and the blob the file
\* route serves, against the stored row.
HasFileAsStored ==
    /\ (last.kind = "createHistory" /\ last.status = 200)
          => /\ StoredDoc(last.body.data.id) # {}
             /\ \A d \in StoredDoc(last.body.data.id) : last.body.data.has_file = ~d.null
             /\ last.body.data.has_file = last.req.file.present
    /\ (last.kind = "getHistory" /\ last.status = 200)
          => /\ StoredDoc(last.req) # {}
             /\ \A d \in StoredDoc(last.req) : last.body.has_file = ~d.null
    /\ (last.kind = "listHistory" /\ last.status = 200)
          => \A i \in 1..Len(last.body) :
                /\ StoredDoc(last.body[i].id) # {}
                /\ \A d \in StoredDoc(last.body[i].id) : last.body[i].has_file = ~d.null
    /\ (last.kind = "getHistoryFile" /\ last.status = 200)
          => /\ StoredDoc(last.req) # {}
             /\ \A d \in StoredDoc(last.req) : ~d.null /\ last.body.data = d.buf

\* The file route, when the store has run its query.
FileAnswer ==
    (/\ last'.kind = "getHistoryFile"
     /\ last'.dberr = "none"
     /\ UNCHANGED <<history, inflight, clock, pc, listening>>)
        => /\ last'.status \in {200, 404}
           /\ last'.status = 404 <=> ~(\E d \in StoredDoc(last'.req) : ~d.null)

\* C6: has_file is true exactly when the stored upload_doc is not NULL, and
\* the file route answers 404 exactly when there is no row or its blob is
\* NULL, and otherwise 200 with the blob.
HasFileConsistent == []HasFileAsStored /\ [][FileAnswer]_vars

NoFileNoDownload ==
    /\ last.kind = "getHistoryFile"
    /\ last.status = 404
    /\ \E d \in StoredDoc(last.req) : d.null

-----------------------------------------------------------------------------
(* Properties of the validators *)

\* e ends with @astrolitetech.com; LocalOf(e) is what comes before it.
HasCompanyDomain(e) ==
    /\ Len(e) >= Len(CompanyDomain)
    /\ SubSeq(e, Len(e) - Len(CompanyDomain) + 1, Len(e)) = CompanyDomain
LocalOf(e) == SubSeq(e, 1, Len(e) - Len(CompanyDomain))

InteriorOk(l) == \A i \in 2..(Len(l) - 1) : l[i] \in AlphaNum \cup {".", "_", "-"}

\* The local part as the documentation describes it.
StartsAndEndsAlphanumeric(l) ==
    Len(l) >= 1 /\ l[1] \in AlphaNum /\ l[Len(l)] \in AlphaNum /\ InteriorOk(l)

\* The local part as amended: at least two characters, the first a letter.
StartsWithLetterEndsAlphanumeric(l) ==
    Len(l) >= 2 /\ l[1] \in Alpha /\ l[Len(l)] \in AlphaNum /\ InteriorOk(l)

\* A create request answered while its employeeId and other fields were fine.
CreateAnswered(kind) ==
    /\ last.kind = kind
    /\ (IF kind = "createTask" THEN last.req ELSE last.req.body).employeeId = GoodId

EmailOfLast == (IF last.kind = "createTask" THEN last.req ELSE last.req.body).email

EmailRefused == last.status = 400 /\ ~last.queried

\* C8 as stated: the create endpoints accept local@astrolitetech.com exactly
\* when local starts and ends with an alphanumeric character and has only
\* alphanumerics, '.', '_' and '-' in between.
EmailAcceptedIffAlphanumericEnds ==
    \A kind \in {"createTask", "createHistory"} :
        CreateAnswered(kind) =>
            (~EmailRefused <=> (/\ HasCompanyDomain(EmailOfLast)
                                /\ StartsAndEndsAlphanumeric(LocalOf(EmailOfLast))))

\* C8 as amended: the create endpoints accept local@astrolitetech.com exactly
\* when local has at least two characters, starts with a letter, ends with an
\* alphanumeric character and has only alphanumerics, '.', '_' and '-' in
\* between; any other string is refused with 400 before any query.
EmailAcceptedIffLetterFirst ==
    \A kind \in {"createTask", "createHistory"} :
        CreateAnswered(kind) =>
            (~EmailRefused <=> (/\ HasCompanyDomain(EmailOfLast)
                                /\ StartsWithLetterEndsAlphanumeric(LocalOf(EmailOfLast))))

LongAddressAccepted ==
    /\ last.kind = "createTask"
    /\ last.status = 200
    /\ \E r \in tasks : r.email = <<"a",".","b","-","c","_","9">> \o CompanyDomain

\* The two id predicates, character by character.
IsDigits(s) == \A i \in 1..Len(s) : s[i] \in Digit
IsCreateId(id) ==
    Len(id) = 7 /\ SubSeq(id, 1, 4) = <<"A","T","S","0">> /\ IsDigits(SubSeq(id, 5, 7))
IsLookupId(id) ==
    /\ Len(id) = 7
    /\ \A i \in 1..3 : id[i] \in {"A", "T", "S"}
    /\ id[4] = "0"
    /\ IsDigits(SubSeq(id, 5, 7))
    /\ SubSeq(id, 5, 7) # <<"0","0","0">>

Ats0000 == <<"A","T","S","0","0","0","0">>

\* C9: creation of tasks and of task-history records and the filters of the
\* two lists accept an id exactly when it is ATS0 and three digits; employee
\* lookup accepts it exactly when it is three of A, T, S, then 0, then three
\* digits other than 000, and answers 400 otherwise; ATS0000 passes the
\* first and is refused 400 by the second.
TwoIdPredicates ==
    /\ \A kind \in {"createTask", "createHistory"} :
          (last.kind = kind /\ EmailOfLast = GoodEmail) =>
              (last.status = 400 <=>
                  ~IsCreateId((IF kind = "createTask" THEN last.req
                               ELSE last.req.body).employeeId))
    /\ \A kind \in {"listTasks", "listHistory"} :
          (last.kind = kind /\ last.req # <<>>) => (last.status = 400 <=> ~IsCreateId(last.req))
    /\ last.kind = "getEmployee" => (last.status = 400 <=> ~IsLookupId(last.req))
    /\ \A r \in tasks \cup history : IsCreateId(r.employee_id)

BoundaryIdSplit ==
    /\ last.kind = "getEmployee"
    /\ last.req = Ats0000
    /\ last.status = 400
    /\ \E r \in tasks : r.employee_id = Ats0000

-----------------------------------------------------------------------------
(* Properties of the served content type *)

StartsWith(buf, magic) ==
    /\ BufLen(buf) >= Len(magic)
    /\ \A i \in 1..Len(magic) : ByteAt(buf, i - 1) = magic[i]

AsciiUpTo(buf, n) ==
    \A i \in 0..((IF BufLen(buf) < n THEN BufLen(buf) ELSE n) - 1) : ByteAt(buf, i) <= 127

\* The order of checks as the documentation gives it.
FirstMatch(buf) ==
    IF BufLen(buf) > 4 /\ StartsWith(buf, <<37, 80, 68, 70>>) THEN "application/pdf"
    ELSE IF StartsWith(buf, <<137, 80, 78, 71>>) THEN "image/png"
    ELSE IF StartsWith(buf, <<255, 216, 255>>) THEN "image/jpeg"
    ELSE IF AsciiUpTo(buf, 100) THEN "text/plain"
    ELSE "application/octet-stream"

ServedFile == last.kind = "getHistoryFile" /\ last.status = 200

\* C10 as stated: a blob of any length, lengths 0 to 4 included, is served
\* with the first match of the documented order.
ContentTypeIsFirstMatch ==
    ServedFile => last.body.contentType = FirstMatch(last.body.data)

\* C10 as amended: a blob of more than 4 bytes is served with the first
\* match of the documented order, a blob of 0 to 4 bytes always as
\* application/octet-stream; the type is one of the five and is the same
\* whatever type the upload declared.
ContentTypeIsFirstMatchAboveFour ==
    ServedFile =>
        /\ last.body.contentType =
              (IF BufLen(last.body.data) <= 4 THEN "application/octet-stream"
               ELSE FirstMatch(last.body.data))
        /\ last.body.contentType \in {"application/pdf", "image/png", "image/jpeg",
                                      "text/plain", "application/octet-stream"}
        /\ last.body.data = input.buffer

ShortTextServedAsOctetStream ==
    /\ ServedFile
    /\ BufLen(last.body.data) = 3
    /\ AsciiUpTo(last.body.data, 100)
    /\ input.mimetype = "text/plain"
    /\ last.body.contentType = "application/octet-stream"

-----------------------------------------------------------------------------
(* Properties of the answers to storage failures *)

\* The message each route gives when its query fails.
GenericMessage ==
    [createTask |-> "Failed to save task", getTask |-> "Failed to fetch task",
     listTasks |-> "Failed to fetch tasks", getEmployee |-> "Failed to fetch employee",
     createHistory |-> "Failed to save task history",
     listHistory |-> "Failed to fetch task history",
     getHistory |-> "Failed to fetch task history",
     getHistoryFile |-> "Failed to retrieve file"]

\* C11: a request whose storage query failed is answered 500 with a body
\* that is fixed by the route alone: whatever the storage error said, the
\* body is the same, so two runs that differ only in the error's message
\* answer alike.
StorageFailureAnswered500 ==
    last.dberr # "none" =>
        /\ last.status = 500
        /\ last.body = [error |-> GenericMessage[last.kind]]
        /\ \A e \in StorageErrors \cup {"unique_violation"} : last.body # [error |-> e]

StorageFailureSeen ==
    /\ last.kind = "createHistory"
    /\ last.dberr = "relation does not exist"
    /\ last.status = 500
    /\ \E r \in tasks : TRUE

-----------------------------------------------------------------------------
(* Properties of initializeDatabase *)

\* The store holds the tables a run of initializeDatabase leaves.
AlreadyInitialized == {"tasks", "task_history"} \subseteq DOMAIN schema

\* A pass of initializeDatabase over an initialized store leaves the schema
\* as it was, and the only error it can catch is that the store is out of
\* reach.
SecondRunKeepsSchema ==
    (pc = "attempt" /\ pc' # "start" /\ AlreadyInitialized)
        => (schema' = schema /\ initError' \in {initError, "connect ECONNREFUSED"})

\* C12: initializeDatabase run again over a store it has initialized raises
\* no error of its statements and leaves the tables and their columns as
\* they were.
InitIdempotent ==
    /\ [](initError \in {"none", "connect ECONNREFUSED"})
    /\ [][SecondRunKeepsSchema]_vars

SecondRunSucceeded ==
    /\ pc = "ready"
    /\ ~listening
    /\ initError = "none"
    /\ tasks # {}

\* Ready is pc = "ready"; Failed is pc = "exited", the throw that startServer
\* answers with process.exit(1).
Settled == pc \in {"ready", "exited"}

AttemptsBounded ==
    /\ attempt <= retries
    /\ pc = "exited" => (attempt = retries /\ initError # "none")
    /\ pc = "sleep" => (attempt < retries /\ initError # "none")

InitializerStep ==
    /\ Settled => (pc' = pc /\ attempt' = attempt)
    /\ (pc = "attempt" /\ pc' # pc) =>
          /\ attempt' = attempt
          /\ pc' \in {"ready", IF attempt < retries THEN "sleep" ELSE "exited"}
          /\ pc' # "ready" => initError' # "none"
    /\ (pc = "sleep" /\ pc' # pc) => pc' = "attempt"
    /\ attempt' # attempt => (pc \in {"start", "sleep"} /\ pc' = "attempt" /\ attempt' = attempt + 1)

\* C13: a run of the initializer ends in Ready or Failed; it makes at most
\* `retries` attempts, sleeps after every failed attempt but the last, makes
\* no attempt after a success, fails only when attempt number `retries` has
\* failed, and once it is Ready or Failed it stays so.
InitializerTerminates ==
    /\ []AttemptsBounded
    /\ [][InitializerStep]_vars
    /\ <>Settled

FailedAfterAllAttempts ==
    /\ pc = "exited"
    /\ attempt = retries
    /\ exitCode = 1

====
